---- MODULE Spec2Model ----
(***************************************************************************)
(* Model of src/app.py: a Streamlit page that keeps an uploaded image and  *)
(* a conversation history in st.session_state and asks a remote model      *)
(* questions about the image.                                              *)
(*                                                                         *)
(* Every widget interaction re-executes the whole script (lines 1-224)     *)
(* against the session state.  One action of the model is one such         *)
(* interaction together with the script run(s) it causes.  The only place  *)
(* where a run blocks is model.generate_content (lines 171-174); there the *)
(* run is split in two steps (pc = "remote" in between).  Widget events    *)
(* that arrive while the run is blocked are held by the script runner as a *)
(* rerun request and executed once the blocked run gets to its next st.*   *)
(* call.                                                                   *)
(*                                                                         *)
(* Optional values (None in the source) are sequences of length 0 or 1.    *)
(* Question strings are sequences of one-character strings so that         *)
(* str.strip() can be computed.                                            *)
(***************************************************************************)
EXTENDS Integers, Sequences, FiniteSets, TLC

VARIABLES
    conversation_history,   \* st.session_state.conversation_history
    current_image,          \* st.session_state.current_image
    current_image_base64,   \* st.session_state.current_image_base64
    uploaded_file,          \* value of the st.file_uploader widget
    user_question,          \* value of the st.text_input widget
    ask_button,             \* how the last run left the Ask button on the page
    view,                   \* the Conversation History expanders on the page
    pc,                     \* "idle", or "remote" inside generate_content
    pending,                \* widget event received while the run is blocked
    last                    \* what the last script run did (observation only)

vars == <<conversation_history, current_image, current_image_base64,
          uploaded_file, user_question, ask_button, view, pc, pending, last>>

session_state == <<conversation_history, current_image, current_image_base64>>

----------------------------------------------------------------------------
(* Bounds and input domains *)

MaxHistory == 2

None == <<>>
Some(x) == <<x>>

\* the size ceiling of process_uploaded_image
MaxBytes == 10 * 1024 * 1024

\* An uploaded file: declared size, PIL mode of the encoded picture, the
\* picture, whether the bytes are no image at all, and whether the pixel data
\* is cut short (the header parses, the pixel data does not load).
File(size, mode, pixels, corrupt, truncated) ==
    [size |-> size, mode |-> mode, pixels |-> pixels,
     corrupt |-> corrupt, truncated |-> truncated]

Files ==
    { File(2048,         "RGB", "p1", FALSE, FALSE),
      File(4096,         "P",   "p2", FALSE, FALSE),
      File(MaxBytes,     "RGB", "p3", FALSE, FALSE),
      File(MaxBytes + 1, "RGB", "p1", FALSE, FALSE),
      File(2048,         "RGB", "p0", TRUE,  FALSE),
      File(2048,         "RGB", "p4", FALSE, TRUE),
      File(2048,         "P",   "p5", FALSE, TRUE) }

\* Texts the user can type
Questions ==
    { <<>>, <<" ">>, <<"a">>, <<" ", "a", " ">>, <<"b", " ">> }

\* Outcomes of model.generate_content followed by response.text
Texts == {"red", "blue"}
RemoteOutcomes ==
    {[kind |-> "text", text |-> t] : t \in Texts}
      \cup {[kind |-> "empty", text |-> ""], [kind |-> "raised", text |-> ""]}

\* values of end_time - start_time and of time.strftime("%H:%M:%S")
ResponseTimes == {0, 3}
Timestamps == {"12:00:00"}

----------------------------------------------------------------------------
(* Pure functions of the script *)

\* str.strip(): drop leading and trailing whitespace
RECURSIVE LStrip(_)
LStrip(s) ==
    IF s = <<>> THEN <<>>
    ELSE IF Head(s) = " " THEN LStrip(Tail(s)) ELSE s

RECURSIVE RStrip(_)
RStrip(s) ==
    IF s = <<>> THEN <<>>
    ELSE IF s[Len(s)] = " " THEN RStrip(SubSeq(s, 1, Len(s) - 1)) ELSE s

strip(s) == RStrip(LStrip(s))

\* The pixel content of a three-channel image: <<m, p>> is picture p
\* projected to RGB from source mode m.  image.convert('RGB') re-projects a
\* picture of another mode; an RGB picture is taken as it is.
convert(pixels, mode) == <<mode, pixels>>

\* process_uploaded_image: image is None or the PIL image; decoded tells
\* whether Image.open was reached; error names the branch that returned None.
process_uploaded_image(f) ==
    IF f.size > MaxBytes
    THEN [image |-> None, decoded |-> FALSE, error |-> "SizeExceeded"]
    ELSE IF f.corrupt
    THEN [image |-> None, decoded |-> TRUE, error |-> "DecodeError"]
    ELSE IF f.mode # "RGB"
    THEN IF f.truncated
         THEN [image |-> None, decoded |-> TRUE, error |-> "DecodeError"]
         ELSE [image |-> Some([pixels |-> convert(f.pixels, f.mode),
                               mode |-> "RGB", truncated |-> FALSE]),
               decoded |-> TRUE, error |-> "none"]
    ELSE [image |-> Some([pixels |-> <<"RGB", f.pixels>>, mode |-> "RGB",
                          truncated |-> f.truncated]),
          decoded |-> TRUE, error |-> "none"]

\* image_to_base64: image.save loads the pixel data and raises when it is
\* cut short; otherwise the base64 text of the JPEG encoding.
image_to_base64(image) ==
    IF image.truncated
    THEN [raised |-> TRUE, value |-> None]
    ELSE [raised |-> FALSE, value |-> Some(<<"b64", "jpeg", image.pixels>>)]

HistoryViewDisplayOrdinal(history) ==
    LET n == Len(history)
        reversed == [k \in 1..n |-> history[n + 1 - k]]
    IN  [k \in 1..n |->
            [ordinal |-> k,
             timestamp |-> reversed[k].timestamp,
             question |-> reversed[k].question,
             answer |-> reversed[k].answer]]

\* The history expanders: enumerate(reversed(history)), label len - i
HistoryView(history) ==
    LET n == Len(history)
        reversed == [k \in 1..n |-> history[n + 1 - k]]
    IN  [k \in 1..n |->
            LET i == k - 1
            IN  [ordinal |-> n - i,
                 timestamp |-> reversed[k].timestamp,
                 question |-> reversed[k].question,
                 answer |-> reversed[k].answer]]

----------------------------------------------------------------------------
(* The script *)

Events ==
    {[type |-> "upload", file |-> Some(f), q |-> <<>>] : f \in Files}
      \cup {[type |-> "remove", file |-> None, q |-> <<>>],
            [type |-> "clear", file |-> None, q |-> <<>>]}
      \cup {[type |-> t, file |-> None, q |-> q] :
               t \in {"type", "ask"}, q \in Questions}

\* Lines 100-104: the Clear Conversation button, when clicked
ClearConversation(ss) ==
    [history |-> <<>>, image |-> None, base64 |-> None]

UploadSectionKeepOnFailure(ss, f) ==
    IF f = None
    THEN [ss |-> ss, raised |-> FALSE, decoded |-> FALSE, ingest |-> "nofile"]
    ELSE LET r == process_uploaded_image(f[1])
         IN  IF r.image # None
             THEN LET b == image_to_base64(r.image[1])
                  IN  [ss |-> [history |-> ss.history,
                               image |-> r.image,
                               base64 |-> IF b.raised THEN ss.base64
                                          ELSE b.value],
                       raised |-> b.raised,
                       decoded |-> r.decoded,
                       ingest |-> r.error]
             ELSE [ss |-> ss,
                   raised |-> FALSE,
                   decoded |-> r.decoded,
                   ingest |-> r.error]

\* Lines 119-135: the upload branch, run against session state ss with the
\* uploader holding f.  raised: image_to_base64 raised at line 126, after
\* line 125 has assigned current_image, and the run ends there.
UploadSection(ss, f) ==
    IF f = None
    THEN [ss |-> ss, raised |-> FALSE, decoded |-> FALSE, ingest |-> "nofile"]
    ELSE LET r == process_uploaded_image(f[1])
         IN  IF r.image # None
             THEN LET b == image_to_base64(r.image[1])
                  IN  [ss |-> [history |-> ss.history,
                               image |-> r.image,
                               base64 |-> IF b.raised THEN ss.base64
                                          ELSE b.value],
                       raised |-> b.raised,
                       decoded |-> r.decoded,
                       ingest |-> r.error]
             ELSE [ss |-> [history |-> ss.history, image |-> None,
                           base64 |-> None],
                   raised |-> FALSE,
                   decoded |-> r.decoded,
                   ingest |-> r.error]

\* Lines 37-135 of one interaction: session state initialisation is a no-op
\* after the first run; a clicked Clear button clears and calls st.rerun(),
\* which starts the script again with the same widget values and the button
\* no longer clicked.
ScriptTop(ss, f, clear_clicked) ==
    UploadSection(IF clear_clicked THEN ClearConversation(ss) ELSE ss, f)

\* Line 148: disabled = not user_question.strip()
AskButton(q) == IF strip(q) = <<>> THEN "disabled" ELSE "enabled"

AskSubmittedUnstripped(ask_clicked, q) == ask_clicked /\ q # <<>>

\* Line 150: if ask_button and user_question.strip()
AskSubmitted(ask_clicked, q) == ask_clicked /\ strip(q) # <<>>

AskResultAnyResponse(history, question, o, rt, ts) ==
    IF o.kind # "raised"
    THEN Append(history, [question |-> strip(question), answer |-> o.text,
                          response_time |-> rt, timestamp |-> ts])
    ELSE history

AskResultPrepend(history, question, o, rt, ts) ==
    IF o.kind = "text" /\ o.text # ""
    THEN <<[question |-> strip(question), answer |-> o.text,
            response_time |-> rt, timestamp |-> ts]>> \o history
    ELSE history

AskResultUnstripped(history, question, o, rt, ts) ==
    IF o.kind = "text" /\ o.text # ""
    THEN Append(history, [question |-> question, answer |-> o.text,
                          response_time |-> rt, timestamp |-> ts])
    ELSE history

\* Lines 176-204: the history after generate_content came back with outcome
\* o: an entry is appended when response.text is a non-empty text; an empty
\* text (line 200) and an exception (lines 202-204) append nothing.
AskResult(history, question, o, rt, ts) ==
    IF o.kind = "text" /\ o.text # ""
    THEN Append(history, [question |-> strip(question), answer |-> o.text,
                          response_time |-> rt, timestamp |-> ts])
    ELSE history

Observation(op, top, result, calls, response) ==
    [op |-> op, ingest |-> top.ingest, decoded |-> top.decoded,
     result |-> result, remote_calls |-> calls, response |-> response]

\* One interaction: the widget event e and the script run it triggers, up to
\* the end of the script or to the remote call at line 171.
Handle(e) ==
    LET f == CASE e.type = "upload" -> e.file
               [] e.type = "remove" -> None
               [] OTHER -> uploaded_file
        q == IF e.type \in {"type", "ask"} THEN e.q ELSE user_question
        ss == [history |-> conversation_history, image |-> current_image,
               base64 |-> current_image_base64]
        top == ScriptTop(ss, f, e.type = "clear")
        asking == AskSubmitted(e.type = "ask", q)
    IN  /\ uploaded_file' = f
        /\ user_question' = q
        /\ conversation_history' = top.ss.history
        /\ current_image' = top.ss.image
        /\ current_image_base64' = top.ss.base64
        /\ IF top.raised
           THEN \* uncaught exception at line 126: nothing below is rendered
                /\ ask_button' = "absent"
                /\ view' = <<>>
                /\ pc' = "idle"
                /\ last' = Observation(e.type, top, "Exception", 0, "")
           ELSE IF asking /\ top.ss.image = None
           THEN \* lines 156-158: warning and st.stop()
                /\ ask_button' = AskButton(q)
                /\ view' = <<>>
                /\ pc' = "idle"
                /\ last' = Observation(e.type, top, "NoImage", 0, "")
           ELSE IF asking
           THEN \* lines 160-174: the run blocks in generate_content
                /\ ask_button' = AskButton(q)
                /\ view' = <<>>
                /\ pc' = "remote"
                /\ last' = Observation(e.type, top, "calling", 1, "")
           ELSE /\ ask_button' = AskButton(q)
                /\ view' = HistoryView(top.ss.history)
                /\ pc' = "idle"
                /\ last' = Observation(e.type, top,
                              IF e.type = "ask" THEN "EmptyQuestion"
                              ELSE "done", 0, "")

Idle == pc = "idle" /\ pending = None

\* the user picks a file in the uploader
Upload(f) ==
    /\ Idle
    /\ Handle([type |-> "upload", file |-> Some(f), q |-> <<>>])
    /\ UNCHANGED pending

\* the user removes the file from the uploader
Remove ==
    /\ Idle
    /\ uploaded_file # None
    /\ Handle([type |-> "remove", file |-> None, q |-> <<>>])
    /\ UNCHANGED pending

\* the user commits a text in the question box
Type(q) ==
    /\ Idle
    /\ ask_button # "absent"
    /\ q # user_question
    /\ Handle([type |-> "type", file |-> None, q |-> q])
    /\ UNCHANGED pending

\* the user clicks Clear Conversation
Clear ==
    /\ Idle
    /\ Handle([type |-> "clear", file |-> None, q |-> <<>>])
    /\ UNCHANGED pending

\* The user clicks Ask.  The button is clickable when the last run rendered
\* it enabled; an edit of the question box that is committed by the same
\* click reaches the script in the same run, so the run sees text q.
Ask(q) ==
    /\ Idle
    /\ ask_button = "enabled"
    /\ Len(conversation_history) < MaxHistory
    /\ Handle([type |-> "ask", file |-> None, q |-> q])
    /\ UNCHANGED pending

\* Lines 171-204: generate_content returns or raises, the rest of the ask
\* branch runs.  A waiting rerun request stops the run at its next st.* call,
\* which comes after the append of lines 184-189.
RemoteReturn(o, rt, ts) ==
    /\ pc = "remote"
    /\ pc' = "idle"
    /\ conversation_history' =
          AskResult(conversation_history, user_question, o, rt, ts)
    /\ view' = IF pending = None THEN HistoryView(conversation_history')
               ELSE <<>>
    /\ last' = [last EXCEPT !.result = o.kind, !.response = o.text]
    /\ UNCHANGED <<current_image, current_image_base64, uploaded_file,
                   user_question, ask_button, pending>>

\* A widget event while the run is blocked in the remote call: the widgets
\* stay interactive (the Ask button is disabled by an empty question only,
\* line 148), the event waits as a rerun request.
Queue(e) ==
    /\ pc = "remote"
    /\ pending = None
    /\ e.type = "ask" => Len(conversation_history) + 1 < MaxHistory
    /\ pending' = Some(e)
    /\ UNCHANGED <<conversation_history, current_image, current_image_base64,
                   uploaded_file, user_question, ask_button, view, pc, last>>

\* the waiting rerun request is executed
Rerun ==
    /\ pc = "idle"
    /\ pending # None
    /\ Handle(pending[1])
    /\ pending' = None

Init ==
    /\ conversation_history = <<>>
    /\ current_image = None
    /\ current_image_base64 = None
    /\ uploaded_file = None
    /\ user_question = <<>>
    /\ ask_button = "disabled"
    /\ view = <<>>
    /\ pc = "idle"
    /\ pending = None
    /\ last = [op |-> "init", ingest |-> "nofile", decoded |-> FALSE,
               result |-> "done", remote_calls |-> 0, response |-> ""]

Next ==
    \/ \E f \in Files : Upload(f)
    \/ Remove
    \/ \E q \in Questions : Type(q)
    \/ Clear
    \/ \E q \in Questions : Ask(q)
    \/ \E o \in RemoteOutcomes, rt \in ResponseTimes, ts \in Timestamps :
          RemoteReturn(o, rt, ts)
    \/ \E e \in Events : Queue(e)
    \/ Rerun

Spec == Init /\ [][Next]_vars

----------------------------------------------------------------------------
(* Properties *)

\* the step is an interaction that starts a script run of kind op
Starts(op) == pc = "idle" /\ last'.op = op /\ vars' # vars

IngestFailed(obs) == obs.ingest \in {"SizeExceeded", "DecodeError"}

Extends(h1, h2) == Len(h2) = Len(h1) + 1 /\ SubSeq(h2, 1, Len(h1)) = h1

\* C1: when the remote call of an ask raises or returns no text, no entry is
\* appended, the image fields are as before the return, and the run ends
\* without the call being issued again.
C1_FailedCallLeavesState ==
    [][(pc = "remote" /\ pc' = "idle" /\ last'.result \in {"raised", "empty"})
         => /\ conversation_history' = conversation_history
            /\ current_image' = current_image
            /\ current_image_base64' = current_image_base64
            /\ last'.remote_calls = 1]_vars

C1_Witness ==
    /\ pc = "idle"
    /\ last.op = "ask"
    /\ last.result = "empty"
    /\ current_image # None
    /\ conversation_history # <<>>

\* C2: an ask whose question is empty after trimming, or that is issued while
\* current_image is None, never calls the remote model and leaves the
\* history as it was.
C2_RejectedAskMakesNoCall ==
    [][(Starts("ask") /\ (strip(user_question') = <<>> \/ current_image = None))
         => /\ last'.remote_calls = 0
            /\ pc' = "idle"
            /\ conversation_history' = conversation_history]_vars

C2_Witness ==
    /\ last.op = "ask"
    /\ last.result = "EmptyQuestion"
    /\ user_question # <<>>
    /\ current_image # None

\* C3 as stated: an upload that fails ingestion leaves current_image and the
\* history as they were.
C3_Original ==
    [][(Starts("upload") /\ IngestFailed(last'))
         => /\ current_image' = current_image
            /\ conversation_history' = conversation_history]_vars

\* C3 amended: an upload that fails ingestion leaves the history as it was
\* and sets current_image and current_image_base64 to None.
C3_FailedUploadDropsImage ==
    [][(Starts("upload") /\ IngestFailed(last'))
         => /\ current_image' = None
            /\ current_image_base64' = None
            /\ conversation_history' = conversation_history]_vars

C3_Witness ==
    /\ last.op = "upload"
    /\ IngestFailed(last)
    /\ current_image = None
    /\ conversation_history # <<>>

\* C4: after clear, with the rerun it triggers, the history is empty and
\* current_image is None, whatever the uploader holds.
C4_ClearLeavesNoImage ==
    [][Starts("clear")
         => /\ conversation_history' = <<>>
            /\ current_image' = None]_vars

\* C5: every step leaves the history unchanged, empties it by clear, or
\* extends it by one entry at its end; an upload never changes it.
C5_HistoryAppendOnly ==
    [][/\ \/ conversation_history' = conversation_history
          \/ Starts("clear") /\ conversation_history' = <<>>
          \/ Extends(conversation_history, conversation_history')
       /\ Starts("upload") => conversation_history' = conversation_history]_vars

C5_Witness ==
    /\ Len(conversation_history) >= 2
    /\ conversation_history[1] # conversation_history[2]
    /\ last.result = "text"

\* C6: every history entry has a non-empty answer and a non-empty, trimmed
\* question, and an entry that is appended carries the text the remote call
\* returned and the trimmed form of the question the user entered.
C6_EntriesComeFromSuccessfulAsks ==
    /\ [](\A k \in 1..Len(conversation_history) :
             /\ conversation_history[k].answer # ""
             /\ conversation_history[k].question # <<>>
             /\ conversation_history[k].question
                   = strip(conversation_history[k].question))
    /\ [][Extends(conversation_history, conversation_history')
            => LET entry == conversation_history'[Len(conversation_history')]
               IN  /\ pc = "remote"
                   /\ last'.result = "text"
                   /\ entry.answer = last'.response
                   /\ entry.question = strip(user_question)]_vars

C6_Witness ==
    /\ conversation_history # <<>>
    /\ last.result = "text"
    /\ user_question # strip(user_question)
    /\ conversation_history[Len(conversation_history)].question
          = strip(user_question)

\* C7: a file of declared size 10 MiB or more is rejected with SizeExceeded
\* and never reaches the decoder.
C7_AtOrAboveLimitRejected ==
    (uploaded_file # None /\ uploaded_file[1].size >= MaxBytes)
       => (last.ingest = "SizeExceeded" /\ ~last.decoded)

\* C8: the rendered history lists the n entries newest first, and the entry
\* shown at place k carries its insertion position n + 1 - k as ordinal, so
\* the ordinals are distinct and run from n down to 1.
C8_ViewNewestFirstWithInsertionOrdinals ==
    view # <<>>
       => LET n == Len(conversation_history)
          IN  /\ Len(view) = n
              /\ \A k \in 1..n :
                    /\ view[k].question = conversation_history[n + 1 - k].question
                    /\ view[k].answer = conversation_history[n + 1 - k].answer
                    /\ view[k].timestamp
                          = conversation_history[n + 1 - k].timestamp
                    /\ view[k].ordinal = n + 1 - k
              /\ view[1].ordinal = n
              /\ view[n].ordinal = 1
              /\ \A j, k \in 1..n : j # k => view[j].ordinal # view[k].ordinal

C8_Witness ==
    /\ Len(view) >= 2
    /\ view[1].answer # view[2].answer
    /\ view[1].answer = conversation_history[Len(conversation_history)].answer

\* C9: while an ask is inside the remote call, the session state does not
\* change and no second ask (a click on Ask with a question that line 150
\* accepts) is submitted.
C9_NothingSubmittedWhileBusy ==
    [][pc = "remote"
         => /\ pc' = "remote" => session_state' = session_state
            /\ pending' # None
                  => ~AskSubmitted(pending'[1].type = "ask", pending'[1].q)]_vars

\* C10: at the end of every action current_image and current_image_base64
\* are both None or both set, and the base64 text is the encoding of the
\* image held in current_image.
C10_ImageAndBase64Paired ==
    pc = "idle"
       => /\ (current_image = None) <=> (current_image_base64 = None)
          /\ current_image # None
                => current_image_base64
                      = Some(<<"b64", "jpeg", current_image[1].pixels>>)

====
